---- MODULE Spec2Model ----
(***************************************************************************)
(* A model of GiantStepsv1.py: the Chord / JazzChord classes, create_line, *)
(* generate_solo and the onGenerate handler of the Giant Steps solo        *)
(* generator.                                                              *)
(*                                                                         *)
(* Pitches are MIDI numbers.  Python lists are sequences; a Python object  *)
(* that the code mutates in place (a chord, a module-level list) is a      *)
(* value of the state that the action replaces.  Where two Python names    *)
(* are bound to one list object, the model keeps the two in step.          *)
(***************************************************************************)
EXTENDS Integers, Sequences, FiniteSets, TLC

VARIABLES
    \* ---- the program (Spec) ----
    numChoruses,                      \* module global, set by the slider
    restCheckbox,                     \* restCheckbox.isChecked()
    bpmField,                         \* text of the BPM field
    chordList,                        \* module global list of JazzChord
    rhythmList,                       \* module global list of durations
    downBeatScaleDegrees,             \* module global, same list object as ...
    DEFAULT_DOWN_BEAT_SCALE_DEGREES,  \* ... this one
    lineDirections,                   \* module global, same list object as ...
    DEFAULT_LINE_DIRECTIONS,          \* ... this one
    soloLinePitches,                  \* module global accumulator
    soloLineRhythms,                  \* module global accumulator
    pianoNotes,                       \* the note blocks the last onGenerate added to pianoMelody
    calls,                            \* outcome of every onGenerate call so far
    \* ---- one Chord object under a sequence of operations (SpecChord) ----
    chord,                            \* the chord object
    built,                            \* its pitches when it was constructed
    ops,                              \* the operations applied to it since
    result,                           \* value returned by the last chord +/- L
    \* ---- one call of create_line (SpecLine) ----
    lineCall,                         \* arguments and outcome of the call
    \* ---- the second loop of generate_solo, iteration by iteration (SpecSmooth) ----
    smoothing                         \* the buffer, the index visited last, the buffer before that visit

progVars == <<numChoruses, restCheckbox, bpmField, chordList, rhythmList,
              downBeatScaleDegrees, DEFAULT_DOWN_BEAT_SCALE_DEGREES,
              lineDirections, DEFAULT_LINE_DIRECTIONS,
              soloLinePitches, soloLineRhythms, pianoNotes, calls>>
chordVars == <<chord, built, ops, result>>
lineVars == <<lineCall>>
smoothVars == <<smoothing>>
vars == <<progVars, chordVars, lineVars, smoothVars>>

(***************************************************************************)
(* Constants of the music library (from music import * ) and of the file.  *)
(***************************************************************************)
\* jMusic's REST is Integer.MIN_VALUE.  Jython integers do not wrap (REST - 12
\* is a long), so the model takes a sentinel far below every pitch that leaves
\* room for the +/-12 the code applies to it.
REST == -1073741824
CS4 == 61
D4 == 62
EF4 == 63
F4 == 65
FS4 == 66
G4 == 67
A4 == 69
BF4 == 70
B4 == 71
C6 == 84
\* durations in eighth notes (EN = 0.5, HN = 2.0, WN = 4.0 beats)
EN == 1
HN == 4
WN == 8
MAJOR_SCALE == <<0, 2, 4, 5, 7, 9, 11>>
AEOLIAN_SCALE == <<0, 2, 3, 5, 7, 8, 10>>
MIXOLYDIAN_SCALE == <<0, 2, 4, 5, 7, 9, 10>>
PENTATONIC_SCALE == <<0, 2, 4, 7, 9>>

P4_ == 5
OCTAVE == 12

MAJOR_TRIAD == <<0, 4, 7>>
MINOR_TRIAD == <<0, 3, 7>>
DIMINISHED_TRIAD == <<0, 3, 6>>
AUGMENTED_TRIAD == <<0, 4, 8>>
DOMINANT_SEVENTH == <<0, 4, 7, 10>>
MAJOR_SEVENTH == <<0, 4, 7, 11>>
MINOR_SEVENTH == <<0, 3, 7, 10>>
HALF_DIMINISHED == <<0, 3, 6, 10>>
FULLY_DIMINISHED == <<0, 3, 6, 9>>
MAJOR_SIXTH == <<0, 4, 7, 9>>
SUSPENDED_FOURTH == <<0, 5, 7>>
Qualities ==
    {MAJOR_TRIAD, MINOR_TRIAD, DIMINISHED_TRIAD, AUGMENTED_TRIAD,
     DOMINANT_SEVENTH, MAJOR_SEVENTH, MINOR_SEVENTH, HALF_DIMINISHED,
     FULLY_DIMINISHED, MAJOR_SIXTH, SUSPENDED_FOURTH}

LOWEST_NOTE == BF4
HIGHEST_NOTE == C6
MINOR_PENTATONIC_SCALE == <<0, 2, 3, 7, 9>>
MAJOR_PENTATONIC_LINE == <<0, 2, 4, 5, 7, 9, 11, 14>>

DEFAULT_CHORUSES == 3
SLIDER_MIN == 1
SLIDER_MAX == 9
DEFAULT_BPM == "286.0"

(***************************************************************************)
(* Python list primitives.                                                 *)
(***************************************************************************)
\* map(lambda x: x + d, s)
MapAdd(s, d) == [i \in 1..Len(s) |-> s[i] + d]

\* list.sort()
Sorted(s) == SortSeq(s, LAMBDA a, b : a < b)

\* list.reverse()
Reversed(s) == [i \in 1..Len(s) |-> s[Len(s) + 1 - i]]

\* the index Python takes a slice bound k for, on a list of length n
SliceIndex(k, n) ==
    IF k < 0 THEN (IF n + k < 0 THEN 0 ELSE n + k)
    ELSE IF k > n THEN n ELSE k

\* s[k:]
SliceFrom(s, k) == SubSeq(s, SliceIndex(k, Len(s)) + 1, Len(s))

\* s[:k]
SliceTo(s, k) == SubSeq(s, 1, SliceIndex(k, Len(s)))

\* s * k  (a list repeated k times; empty for k <= 0)
RECURSIVE Repeat(_, _)
Repeat(s, k) == IF k <= 0 THEN <<>> ELSE s \o Repeat(s, k - 1)

\* any(note < bound for note in s), any(note > bound for note in s)
AnyBelow(s, bound) == \E i \in 1..Len(s) : s[i] < bound
AnyAbove(s, bound) == \E i \in 1..Len(s) : s[i] > bound

\* F applied to the value of x.  (TLC evaluates an operator's argument only when
\* the body first uses it; binding it through a set evaluates it here, which keeps
\* the evaluation of a long loop shallow.)
Then(x, F(_)) == CHOOSE r \in {F(v) : v \in {x}} : TRUE

\* p in s
Contains(s, p) == \E i \in 1..Len(s) : s[i] = p

\* while p in s: s.remove(p)
RemoveAll(s, p) == SelectSeq(s, LAMBDA x : x # p)

\* s.remove(p): the first occurrence only
RemoveFirst(s, p) ==
    IF ~Contains(s, p) THEN s
    ELSE LET i == CHOOSE j \in 1..Len(s) :
                      s[j] = p /\ \A h \in 1..(j - 1) : s[h] # p
         IN  SubSeq(s, 1, i - 1) \o SubSeq(s, i + 1, Len(s))

(***************************************************************************)
(* class Chord, class JazzChord.  An object is a record: cls tells the     *)
(* class (only a JazzChord has dropOctave, raiseOctave and a scale), scale *)
(* is << >> where the constructor sets none.                               *)
(***************************************************************************)
Semitones(root, pitches) == MapAdd(pitches, 0 - root)

\* a rotation of the pitches that adds no octave to the pitches it moves to the end
invert_rotateOnly(ch, inversion) ==
    LET p == ch.pitches
        q == SliceFrom(p, inversion) \o SliceTo(p, inversion)
    IN  [ch EXCEPT !.pitches = q, !.semitones = Semitones(ch.root, q)]

\* Chord.invert(inversion): no modulo here, the slices take the argument as it is
invert(ch, inversion) ==
    LET p == ch.pitches
        q == SliceFrom(p, inversion) \o MapAdd(SliceTo(p, inversion), OCTAVE)
    IN  [ch EXCEPT !.pitches = q, !.semitones = Semitones(ch.root, q)]

\* Chord.__init__(root, quality, inversion); quality is not empty
\* (inversion % len(quality) divides by zero otherwise, see ChordInitFails)
ChordInitFails(quality) == Len(quality) = 0

Chord(root, quality, inversion) ==
    LET inv == inversion % Len(quality)
        c0 == [cls |-> "Chord", root |-> root, pitches |-> MapAdd(quality, root),
               semitones |-> <<0>>, scale |-> <<>>]
        c1 == invert(c0, inv)
        p == Sorted(c1.pitches)
    IN  [c1 EXCEPT !.pitches = p, !.semitones = Semitones(root, p)]

\* JazzChord.__init__: the inversion argument is dropped (inversion=0 is
\* passed on); the scale is chosen by the quality
JazzChordAssertFails(root, quality) == AnyBelow(Chord(root, quality, 0).pitches, 0)

JazzChord(root, quality, inversion) ==
    LET c == Chord(root, quality, 0)
    IN  [c EXCEPT !.cls = "JazzChord",
                  !.scale = IF quality = MAJOR_SEVENTH THEN MAJOR_SCALE
                            ELSE IF quality = MINOR_SEVENTH THEN AEOLIAN_SCALE
                            ELSE IF quality = DOMINANT_SEVENTH THEN MIXOLYDIAN_SCALE
                            ELSE <<>>]

\* JazzChord.dropOctave / raiseOctave: pitches only, semitones are left as they were
dropOctave(ch) == [ch EXCEPT !.pitches = MapAdd(ch.pitches, -12)]

raiseOctave(ch) == [ch EXCEPT !.pitches = MapAdd(ch.pitches, 12)]

\* Chord.__add__(object) for a list of pitches: a new Chord built from
\* root + semitones, the pitches of the list appended, sorted
ChordAdd(ch, L) ==
    LET temp == Chord(ch.root, ch.semitones, 0)
        p == Sorted(temp.pitches \o L)
    IN  [temp EXCEPT !.pitches = p, !.semitones = Semitones(temp.root, p)]

\* Chord.__sub__(pitch) for a list of pitches: a new Chord built from
\* root + semitones, every occurrence of each listed pitch removed, sorted
RECURSIVE RemoveEach(_, _)
RemoveEach(s, L) ==
    IF L = <<>> THEN s ELSE RemoveEach(RemoveAll(s, Head(L)), Tail(L))

ChordSub(ch, L) ==
    LET temp == Chord(ch.root, ch.semitones, 0)
        p == Sorted(RemoveEach(temp.pitches, L))
    IN  [temp EXCEPT !.pitches = p, !.semitones = Semitones(temp.root, p)]

(***************************************************************************)
(* create_line.  The function works on `line`, which in some branches is   *)
(* the very list object jazz_chord.pitches: `aliased` records that, and    *)
(* what is then done to line in place is done to the chord.  The outcome   *)
(* is a record: err ("" when the call returns), the returned line, the     *)
(* chord object as the call leaves it, the line as it entered the range    *)
(* clamp (filled), and which of the two range shifts ran.                  *)
(***************************************************************************)
\* a test for the rest sentinel alone
SilentStart_restOnly(start) == start = REST

\* start < 0 or start == REST
SilentStart(start) == start < 0 \/ start = REST

\* the local JazzChord(start, quality, 0) of the branch sp is 1
PentatonicQuality(jc, direction, num_notes) ==
    IF num_notes > 4
    THEN (IF direction = 1 THEN SliceTo(MAJOR_PENTATONIC_LINE, num_notes)
          ELSE SliceTo(MAJOR_PENTATONIC_LINE, 4))
    ELSE IF jc.scale = MAJOR_SCALE \/ jc.scale = MIXOLYDIAN_SCALE
         THEN SliceTo(PENTATONIC_SCALE, num_notes)
         ELSE SliceTo(MINOR_PENTATONIC_SCALE, num_notes)

\* the first JazzChord the branch sp is 1 constructs, whatever num_notes is
PentatonicFirstQuality(jc, num_notes) ==
    IF jc.scale = MAJOR_SCALE \/ jc.scale = MIXOLYDIAN_SCALE
    THEN SliceTo(PENTATONIC_SCALE, num_notes)
    ELSE SliceTo(MINOR_PENTATONIC_SCALE, num_notes)

\* jazz_chord.invert(k); jazz_chord.dropOctave(); line = jazz_chord.pitches; line.reverse()
InvertDropReverse(jc, k) ==
    LET c == dropOctave(invert(jc, k))
    IN  [c EXCEPT !.pitches = Reversed(c.pitches)]

\* the branches on sp: the raw line, the chord as the branch leaves it
SelectPattern(start, jc, direction, num_notes, sp) ==
    LET p0 == jc.pitches[1]
        sc == jc.scale
        out(e, l, c, a) == [err |-> e, line |-> l, chord |-> c, aliased |-> a]
    IN
    IF sp = 1 THEN
        IF ChordInitFails(PentatonicFirstQuality(jc, num_notes))
           \/ ChordInitFails(PentatonicQuality(jc, direction, num_notes))
        THEN out("ZeroDivisionError", <<>>, jc, FALSE)
        ELSE LET pentatonic == JazzChord(start, PentatonicQuality(jc, direction, num_notes), 0)
             IN  IF direction = 0
                 THEN out("", InvertDropReverse(pentatonic, 1).pitches, jc, FALSE)
                 ELSE out("", pentatonic.pitches, jc, FALSE)
    ELSE IF sp = 3 THEN
        IF direction = 0
        THEN LET c == InvertDropReverse(jc, 2) IN out("", c.pitches, c, TRUE)
        ELSE LET c == invert(jc, 1) IN out("", c.pitches, c, TRUE)
    ELSE IF sp = 5 THEN
        IF num_notes = 8
        THEN IF jc.pitches = <<>> \/ Len(sc) < 5
             THEN out("IndexError", <<>>, jc, FALSE)
             ELSE out("", <<p0 + sc[5], p0 + sc[4], p0 + sc[3], p0 + sc[2],
                            p0 + sc[1], p0 + sc[2], p0 + sc[3], p0 + sc[5]>>, jc, FALSE)
        ELSE IF direction = 0
             THEN LET c == InvertDropReverse(jc, 3) IN out("", c.pitches, c, TRUE)
             ELSE LET c == invert(jc, 2) IN out("", c.pitches, c, TRUE)
    ELSE IF sp = 7 THEN
        IF direction = 0
        THEN out("", jc.pitches, jc, TRUE)
        ELSE LET c == invert(jc, 3) IN out("", c.pitches, c, TRUE)
    ELSE IF sp = 4 THEN
        IF jc.pitches = <<>>
        THEN out("IndexError", <<>>, jc, FALSE)
        ELSE out("", <<p0 + P4_, p0 + P4_ - 1, p0 + P4_ - 2, p0 + P4_ - 3>>, jc, FALSE)
    ELSE IF sp = 2 THEN
        IF jc.pitches = <<>> \/ Len(sc) < 7
        THEN out("IndexError", <<>>, jc, FALSE)
        ELSE out("", <<p0 + sc[2], p0 + sc[7] - 12, p0 + sc[6] - 12, p0 + sc[5] - 12>>,
                 jc, FALSE)
    ELSE IF sp = 6 THEN
        IF jc.pitches = <<>> \/ Len(sc) < 6
        THEN out("IndexError", <<>>, jc, FALSE)
        ELSE out("", <<p0 + sc[6] - 12, p0 + sc[5] - 12, p0 + sc[3] - 12, p0>>, jc, FALSE)
    ELSE out("AssertionError", <<>>, jc, FALSE)

\* the fill step: append REST up to num_notes, or repeat the line in place
FillLine_noPadding(sel, num_notes, restChecked) ==
    [err |-> "", line |-> sel.line, chord |-> sel.chord]

FillLine(sel, num_notes, restChecked) ==
    LET line == sel.line
        filled == IF restChecked
                  THEN line \o [i \in 1..(num_notes - Len(line)) |-> REST]
                  ELSE Repeat(line, num_notes \div Len(line))
    IN  IF ~restChecked /\ Len(line) = 0
        THEN [err |-> "ZeroDivisionError", line |-> line, chord |-> sel.chord]
        ELSE [err |-> "", line |-> filled,
              chord |-> IF sel.aliased
                        THEN [sel.chord EXCEPT !.pitches = filled]
                        ELSE sel.chord]

\* the range clamp: two tests, one after the other, each on the whole line
ClampLine_elif(line) ==
    LET up == AnyBelow(line, LOWEST_NOTE)
        down == ~up /\ AnyAbove(line, HIGHEST_NOTE)
    IN  [line |-> IF up THEN MapAdd(line, 12)
                  ELSE IF down THEN MapAdd(line, -12) ELSE line,
         up |-> up, down |-> down]

ClampLine(line) ==
    LET up == AnyBelow(line, LOWEST_NOTE)
        l1 == IF up THEN MapAdd(line, 12) ELSE line
        down == AnyAbove(l1, HIGHEST_NOTE)
        l2 == IF down THEN MapAdd(l1, -12) ELSE l1
    IN  [line |-> l2, up |-> up, down |-> down]

create_line(start, end, jazz_chord, direction, num_notes, sp, restChecked) ==
    LET ret(e, l, c, f, u, d) ==
            [err |-> e, line |-> l, chord |-> c, filled |-> f, up |-> u, down |-> d]
        silent == [i \in 1..num_notes |-> REST]
        clamp(fill) ==
            Then(ClampLine(fill.line),
                 LAMBDA c : ret("", c.line, fill.chord, fill.line, c.up, c.down))
        fillAndClamp(sel) ==
            Then(FillLine(sel, num_notes, restChecked),
                 LAMBDA fill : IF fill.err # ""
                               THEN ret(fill.err, <<>>, fill.chord, <<>>, FALSE, FALSE)
                               ELSE clamp(fill))
    IN
    IF SilentStart(start)
    THEN ret("", silent, jazz_chord, silent, FALSE, FALSE)
    ELSE Then(SelectPattern(start, jazz_chord, direction, num_notes, sp),
              LAMBDA sel : IF sel.err # ""
                           THEN ret(sel.err, <<>>, sel.chord, <<>>, FALSE, FALSE)
                           ELSE fillAndClamp(sel))

(***************************************************************************)
(* The form: generate_chorus_changes(), generate_chorus_chord_rhythms()    *)
(* and the two 26-entry tables.                                            *)
(***************************************************************************)
generate_chorus_changes ==
    << JazzChord(B4, MAJOR_SEVENTH, 0),
       JazzChord(D4, DOMINANT_SEVENTH, 0),
       JazzChord(G4, MAJOR_SEVENTH, 0),
       JazzChord(BF4, DOMINANT_SEVENTH, 0),
       JazzChord(EF4, MAJOR_SEVENTH, 0),
       JazzChord(A4, MINOR_SEVENTH, 0),
       JazzChord(D4, DOMINANT_SEVENTH, 0),
       JazzChord(G4, MAJOR_SEVENTH, 0),
       JazzChord(BF4, DOMINANT_SEVENTH, 0),
       JazzChord(EF4, MAJOR_SEVENTH, 0),
       JazzChord(FS4, DOMINANT_SEVENTH, 0),
       JazzChord(B4, MAJOR_SEVENTH, 0),
       JazzChord(F4, MINOR_SEVENTH, 0),
       JazzChord(BF4, DOMINANT_SEVENTH, 0),
       JazzChord(EF4, MAJOR_SEVENTH, 0),
       JazzChord(A4, MINOR_SEVENTH, 0),
       JazzChord(D4, DOMINANT_SEVENTH, 0),
       JazzChord(G4, MAJOR_SEVENTH, 0),
       JazzChord(CS4, MINOR_SEVENTH, 0),
       JazzChord(FS4, DOMINANT_SEVENTH, 0),
       JazzChord(B4, MAJOR_SEVENTH, 0),
       JazzChord(F4, MINOR_SEVENTH, 0),
       JazzChord(BF4, DOMINANT_SEVENTH, 0),
       JazzChord(EF4, MAJOR_SEVENTH, 0),
       JazzChord(CS4, MINOR_SEVENTH, 0),
       JazzChord(FS4, DOMINANT_SEVENTH, 0) >>

generate_chorus_chord_rhythms ==
    <<HN, HN, HN, HN, WN, HN, HN, HN, HN, HN, HN, WN, HN, HN, WN,
      HN, HN, WN, HN, HN, WN, HN, HN, WN, HN, HN>>

InitialDownBeatScaleDegrees ==
    <<1, 1, 1, 2, 1, 5, 3, 3, 3, 1, 7, 7, 4, 5, 5, 5,
      4, 5, 2, 1, 1, 1, 6, 1, 6, 3>>

InitialLineDirections ==
    <<1, 1, 0, 0, 1, 0, 1, 1, 1, 1, 1, 0, 0, 0, 1, 0, 1, 0, 0, 1, 1, 0, 0, 1, 1, 0>>

\* chord.pitches[0] + chord.scale[degree - 1], as generate_solo resolves a downbeat
DownBeat(ch, degree) == ch.pitches[1] + ch.scale[degree]

(***************************************************************************)
(* SpecLine: one call of create_line on a freshly constructed chord of the *)
(* form, the arguments drawn from bounded sets.                            *)
(***************************************************************************)
MaxNotes == 9
MaxDegree == 8

LineChords == {generate_chorus_changes[i] : i \in 1..Len(generate_chorus_changes)}

\* start pitches: the rest sentinel, a negative number, the lowest MIDI pitch,
\* and the downbeat generate_solo passes for the degree
LineStarts(jc, sp) ==
    {REST, -1, 0} \cup (IF sp \in 1..7 THEN {DownBeat(jc, sp)} ELSE {})

NoLineCall ==
    [called |-> FALSE, start |-> 0, end |-> 0, chord |-> generate_chorus_changes[1],
     direction |-> 0, num_notes |-> 0, sp |-> 0, restChecked |-> FALSE,
     ret |-> [err |-> "", line |-> <<>>, chord |-> generate_chorus_changes[1],
              filled |-> <<>>, up |-> FALSE, down |-> FALSE]]

CallCreateLine ==
    /\ ~lineCall.called
    /\ \E jc \in LineChords, sp \in 0..MaxDegree, direction \in {0, 1},
       num_notes \in 0..MaxNotes, restChecked \in BOOLEAN, end \in {0, G4} :
       \E start \in LineStarts(jc, sp) :
        /\ lineCall' =
             [called |-> TRUE, start |-> start, end |-> end, chord |-> jc,
              direction |-> direction, num_notes |-> num_notes, sp |-> sp,
              restChecked |-> restChecked,
              ret |-> create_line(start, end, jc, direction, num_notes, sp, restChecked)]
        /\ UNCHANGED <<progVars, chordVars, smoothVars>>

(***************************************************************************)
(* SpecChord: one chord object, constructed and then operated on.          *)
(***************************************************************************)
MaxOps == 3

ChordRoots == {D4, B4}

NoResult == [err |-> "none"]

\* the pitch lists given to + and -: built from the chord's first current pitch
\* and the last pitch it was built with
PitchLists(ch, b) ==
    IF ch.pitches = <<>> THEN {<<>>, <<b[Len(b)]>>}
    ELSE {<<>>, <<ch.pitches[1]>>, <<ch.pitches[1], b[Len(b)]>>}

InitChordVars ==
    /\ chord \in {JazzChord(r, q, 0) : r \in ChordRoots, q \in Qualities}
                  \cup {Chord(r, q, 1) : r \in ChordRoots, q \in Qualities}
    /\ built = chord.pitches
    /\ ops = <<>>
    /\ result = NoResult

IdleChordVars ==
    /\ chord = JazzChord(B4, MAJOR_SEVENTH, 0)
    /\ built = chord.pitches
    /\ ops = <<>>
    /\ result = NoResult

\* chord.invert(k)
DoInvert(k) ==
    /\ Len(ops) < MaxOps
    /\ chord' = invert(chord, k)
    /\ ops' = Append(ops, [op |-> "invert", k |-> k, L |-> <<>>])
    /\ UNCHANGED <<built, result>>
    /\ UNCHANGED <<progVars, lineVars, smoothVars>>

\* chord.dropOctave()
DoDropOctave ==
    /\ Len(ops) < MaxOps
    /\ chord.cls = "JazzChord"
    /\ chord' = dropOctave(chord)
    /\ ops' = Append(ops, [op |-> "dropOctave", k |-> 0, L |-> <<>>])
    /\ UNCHANGED <<built, result>>
    /\ UNCHANGED <<progVars, lineVars, smoothVars>>

\* chord.raiseOctave()
DoRaiseOctave ==
    /\ Len(ops) < MaxOps
    /\ chord.cls = "JazzChord"
    /\ chord' = raiseOctave(chord)
    /\ ops' = Append(ops, [op |-> "raiseOctave", k |-> 0, L |-> <<>>])
    /\ UNCHANGED <<built, result>>
    /\ UNCHANGED <<progVars, lineVars, smoothVars>>

\* result = chord + L   (Chord(root, semitones) divides by zero on a chord without pitches)
DoAdd(L) ==
    /\ Len(ops) < MaxOps
    /\ result' = IF ChordInitFails(chord.semitones)
                  THEN [err |-> "ZeroDivisionError"]
                  ELSE [err |-> "", new |-> ChordAdd(chord, L)]
    /\ ops' = Append(ops, [op |-> "add", k |-> 0, L |-> L])
    /\ UNCHANGED <<chord, built>>
    /\ UNCHANGED <<progVars, lineVars, smoothVars>>

\* result = chord - L
DoSub(L) ==
    /\ Len(ops) < MaxOps
    /\ result' = IF ChordInitFails(chord.semitones)
                  THEN [err |-> "ZeroDivisionError"]
                  ELSE [err |-> "", new |-> ChordSub(chord, L)]
    /\ ops' = Append(ops, [op |-> "sub", k |-> 0, L |-> L])
    /\ UNCHANGED <<chord, built>>
    /\ UNCHANGED <<progVars, lineVars, smoothVars>>

\* chord = result   (as in  chord = chord - L,  chord += L)
DoRebind ==
    /\ Len(ops) < MaxOps
    /\ result.err = ""
    /\ chord' = result.new
    /\ ops' = Append(ops, [op |-> "rebind", k |-> 0, L |-> <<>>])
    /\ UNCHANGED <<built, result>>
    /\ UNCHANGED <<progVars, lineVars, smoothVars>>

(***************************************************************************)
(* generate_solo.  It reads and writes the module globals; here they are   *)
(* arguments and fields of the outcome: err ("" when it returns), the      *)
(* chords as create_line left them, and the two accumulators.              *)
(***************************************************************************)
\* one iteration of the first loop, for the chord at (1-based) index i
SlotStep(st, i, degrees, directions, rhythms, restChecked) ==
    IF st.err # "" THEN st
    ELSE
    LET ch == st.chords[i]
        fail(e) == [st EXCEPT !.err = e]
        badDegree(c, d) == d > 0 /\ (c.pitches = <<>> \/ d > Len(c.scale))
    IN
    IF i > Len(degrees) THEN fail("IndexError")
    ELSE IF badDegree(ch, degrees[i]) THEN fail("IndexError")
    ELSE IF i < Len(st.chords) /\ i + 1 > Len(degrees) THEN fail("IndexError")
    ELSE IF i < Len(st.chords) /\ badDegree(st.chords[i + 1], degrees[i + 1])
         THEN fail("IndexError")
    ELSE
    LET starting_pitch == degrees[i]
        current_down_beat ==
            IF starting_pitch > 0 THEN DownBeat(ch, starting_pitch) ELSE REST
        next_down_beat ==
            IF i < Len(st.chords) /\ degrees[i + 1] > 0
            THEN DownBeat(st.chords[i + 1], degrees[i + 1]) ELSE 0
        line_length == rhythms[i] \div EN
    IN  Then(create_line(current_down_beat, next_down_beat, ch, directions[i],
                         line_length, starting_pitch, restChecked),
             LAMBDA line :
                 IF line.err # ""
                 THEN [st EXCEPT !.err = line.err, !.chords[i] = line.chord]
                 ELSE [st EXCEPT !.chords[i] = line.chord,
                                 !.solo = @ \o line.line,
                                 !.rhythms = @ \o [k \in 1..Len(line.line) |-> EN]])

\* the first loop over the indices lo..hi, in order
RECURSIVE FirstPass(_, _, _, _, _, _, _)
FirstPass(st, lo, hi, degrees, directions, rhythms, restChecked) ==
    IF lo > hi THEN st
    ELSE IF lo = hi THEN SlotStep(st, lo, degrees, directions, rhythms, restChecked)
    ELSE LET mid == (lo + hi) \div 2
         IN  Then(FirstPass(st, lo, mid, degrees, directions, rhythms, restChecked),
                  LAMBDA st1 : FirstPass(st1, mid + 1, hi, degrees, directions, rhythms,
                                         restChecked))

\* one iteration of the second loop, at (1-based) index j <= len - 4
SmoothStep(s, j) ==
    IF s[j] < 0 THEN s
    ELSE IF s[j] - s[j + 1] <= -12
         THEN [s EXCEPT ![j + 1] = @ - 12, ![j + 2] = @ - 12,
                        ![j + 3] = @ - 12, ![j + 4] = @ - 12]
         ELSE s

\* the second loop over the indices lo..hi, in order
RECURSIVE SmoothPass(_, _, _)
SmoothPass(s, lo, hi) ==
    IF lo > hi THEN s
    ELSE IF lo = hi THEN SmoothStep(s, lo)
    ELSE LET mid == (lo + hi) \div 2
         IN  Then(SmoothPass(s, lo, mid), LAMBDA s1 : SmoothPass(s1, mid + 1, hi))

\* the last loop: every negative value becomes REST
RestPass(s) == [i \in 1..Len(s) |-> IF s[i] < 0 THEN REST ELSE s[i]]

generate_solo(chords, rhythms, degrees, directions, pitches0, rhythms0, restChecked) ==
    LET st0 == [err |-> "", chords |-> chords, solo |-> pitches0, rhythms |-> rhythms0]
    IN  Then(FirstPass(st0, 1, Len(chords), degrees, directions, rhythms, restChecked),
             LAMBDA st1 :
                 IF st1.err # "" THEN st1
                 ELSE [st1 EXCEPT
                         !.solo = RestPass(SmoothPass(st1.solo, 1, Len(st1.solo) - 4))])

(***************************************************************************)
(* SpecSmooth: the second loop of generate_solo taken one iteration at a   *)
(* time, on the buffer the first loop leaves when Generate is pressed for  *)
(* the first time.  smoothing.i is the (1-based) index visited last, 0     *)
(* before the first visit.                                                 *)
(***************************************************************************)
MaxSmoothChoruses == 1

NoSmoothing == [solo |-> <<>>, i |-> 0, before |-> <<>>]

\* soloLinePitches after the first loop, for either fill policy
FirstPassBuffers ==
    {FirstPass([err |-> "",
                chords |-> Repeat(generate_chorus_changes, n),
                solo |-> <<>>, rhythms |-> <<>>],
               1, n * Len(generate_chorus_changes),
               Repeat(InitialDownBeatScaleDegrees, n),
               Repeat(InitialLineDirections, n),
               Repeat(generate_chorus_chord_rhythms, n), rc).solo :
        n \in 1..MaxSmoothChoruses, rc \in BOOLEAN}

InitSmoothVars ==
    smoothing \in {[solo |-> b, i |-> 0, before |-> b] : b \in FirstPassBuffers}

\* one iteration of  for i, pitch in enumerate(soloLinePitches);  the loop
\* breaks at the index len - 4 (0-based)
SmoothVisit ==
    /\ smoothing.i + 1 <= Len(smoothing.solo) - 4
    /\ smoothing' = [solo |-> SmoothStep(smoothing.solo, smoothing.i + 1),
                     i |-> smoothing.i + 1,
                     before |-> smoothing.solo]
    /\ UNCHANGED <<progVars, chordVars, lineVars>>

(***************************************************************************)
(* Spec: the program.  The handlers of the GUI are the actions.            *)
(***************************************************************************)
\* The behaviours are followed up to the MaxRuns-th call of onGenerate: every
\* action carries the guard MoreRuns.
MaxRuns == 2

\* the texts typed into the BPM field; float() raises ValueError on the second
BpmTexts == {DEFAULT_BPM, "fast"}
FloatFails(text) == text = "fast"

MoreRuns == Len(calls) < MaxRuns

InitProg ==
    /\ numChoruses = DEFAULT_CHORUSES
    /\ restCheckbox = TRUE
    /\ bpmField = DEFAULT_BPM
    /\ chordList = <<>>
    /\ rhythmList = <<>>
    /\ DEFAULT_DOWN_BEAT_SCALE_DEGREES = InitialDownBeatScaleDegrees
    /\ DEFAULT_LINE_DIRECTIONS = InitialLineDirections
    /\ downBeatScaleDegrees = DEFAULT_DOWN_BEAT_SCALE_DEGREES
    /\ lineDirections = DEFAULT_LINE_DIRECTIONS
    /\ soloLinePitches = <<>>
    /\ soloLineRhythms = <<>>
    /\ pianoNotes = <<>>
    /\ calls = <<>>

\* onSliderChange(value)
onSliderChange(value) ==
    /\ MoreRuns
    /\ numChoruses' = value
    /\ UNCHANGED <<restCheckbox, bpmField, chordList, rhythmList,
                   downBeatScaleDegrees, DEFAULT_DOWN_BEAT_SCALE_DEGREES,
                   lineDirections, DEFAULT_LINE_DIRECTIONS,
                   soloLinePitches, soloLineRhythms, pianoNotes, calls>>
    /\ UNCHANGED <<chordVars, lineVars, smoothVars>>

\* the user checks or unchecks "Use rests"
ToggleRestCheckbox ==
    /\ MoreRuns
    /\ restCheckbox' = ~restCheckbox
    /\ UNCHANGED <<numChoruses, bpmField, chordList, rhythmList,
                   downBeatScaleDegrees, DEFAULT_DOWN_BEAT_SCALE_DEGREES,
                   lineDirections, DEFAULT_LINE_DIRECTIONS,
                   soloLinePitches, soloLineRhythms, pianoNotes, calls>>
    /\ UNCHANGED <<chordVars, lineVars, smoothVars>>

\* the user edits the BPM field
EditBpm(text) ==
    /\ MoreRuns
    /\ bpmField' = text
    /\ UNCHANGED <<numChoruses, restCheckbox, chordList, rhythmList,
                   downBeatScaleDegrees, DEFAULT_DOWN_BEAT_SCALE_DEGREES,
                   lineDirections, DEFAULT_LINE_DIRECTIONS,
                   soloLinePitches, soloLineRhythms, pianoNotes, calls>>
    /\ UNCHANGED <<chordVars, lineVars, smoothVars>>

\* onGenerate().  (The values the handler computes are bound with \E over a
\* one-element set.)  downBeatScaleDegrees and DEFAULT_DOWN_BEAT_SCALE_DEGREES are
\* one list object (the only bindings are  downBeatScaleDegrees =
\* DEFAULT_DOWN_BEAT_SCALE_DEGREES), so  downBeatScaleDegrees *= numChoruses,
\* which extends the list in place, changes both; likewise lineDirections.
\* An exception leaves the handler at once: nothing after it runs.
onGenerate ==
    /\ MoreRuns
    /\ \E chords1 \in {chordList \o Repeat(generate_chorus_changes, numChoruses)},
          rhythms1 \in {rhythmList \o Repeat(generate_chorus_chord_rhythms, numChoruses)},
          degrees1 \in {Repeat(downBeatScaleDegrees, numChoruses)},
          directions1 \in {Repeat(lineDirections, numChoruses)} :
       \E g \in {generate_solo(chords1, rhythms1, degrees1, directions1,
                               soloLinePitches, soloLineRhythms, restCheckbox)} :
       LET comp == [i \in 1..Len(g.chords) |-> g.chords[i].pitches]
           outcome(e) == [numChoruses |-> numChoruses, err |-> e]
       IN  /\ DEFAULT_DOWN_BEAT_SCALE_DEGREES' = degrees1
           /\ DEFAULT_LINE_DIRECTIONS' = directions1
           /\ downBeatScaleDegrees' = degrees1
           /\ lineDirections' = directions1
           /\ soloLinePitches' = g.solo
           /\ soloLineRhythms' = g.rhythms
           /\ IF g.err # ""
              THEN \* generate_solo raised
                   /\ chordList' = g.chords
                   /\ rhythmList' = rhythms1
                   /\ pianoNotes' = <<>>
                   /\ calls' = Append(calls, outcome(g.err))
              ELSE \* soloMelody.addNoteList(soloLinePitches, soloLineRhythms), then
                   \* pianoMelody.addNoteList([chord.pitches], [rhythm]) for every chord
                   /\ pianoNotes' = comp
                   /\ IF FloatFails(bpmField)
                      THEN \* float(bpmField.getText()) raised
                           /\ chordList' = g.chords
                           /\ rhythmList' = rhythms1
                           /\ calls' = Append(calls, outcome("ValueError"))
                      ELSE \* the reset at the end of the handler
                           /\ chordList' = <<>>
                           /\ rhythmList' = <<>>
                           /\ calls' = Append(calls, outcome(""))
    /\ UNCHANGED <<numChoruses, restCheckbox, bpmField>>
    /\ UNCHANGED <<chordVars, lineVars, smoothVars>>

Init == InitProg /\ IdleChordVars /\ lineCall = NoLineCall /\ smoothing = NoSmoothing

Next ==
    \/ \E value \in SLIDER_MIN..SLIDER_MAX : onSliderChange(value)
    \/ ToggleRestCheckbox
    \/ \E text \in BpmTexts : EditBpm(text)
    \/ onGenerate

Spec == Init /\ [][Next]_vars

InitLine == InitProg /\ IdleChordVars /\ lineCall = NoLineCall /\ smoothing = NoSmoothing

NextLine == CallCreateLine

SpecLine == InitLine /\ [][NextLine]_vars

InitChord == InitProg /\ InitChordVars /\ lineCall = NoLineCall /\ smoothing = NoSmoothing

NextChord ==
    \/ \E k \in 0..Len(chord.pitches) : DoInvert(k)
    \/ DoDropOctave
    \/ DoRaiseOctave
    \/ \E L \in PitchLists(chord, built) : DoAdd(L)
    \/ \E L \in PitchLists(chord, built) : DoSub(L)
    \/ DoRebind

SpecChord == InitChord /\ [][NextChord]_vars

InitSmooth == InitProg /\ IdleChordVars /\ lineCall = NoLineCall /\ InitSmoothVars

NextSmooth == SmoothVisit

SpecSmooth == InitSmooth /\ [][NextSmooth]_vars

(***************************************************************************)
(* Properties of create_line (checked under SpecLine).                     *)
(***************************************************************************)
LineReturned == lineCall.called /\ lineCall.ret.err = ""

Rests(n) == [i \in 1..n |-> REST]

HasNoteBelow(line, bound) ==
    \E i \in 1..Len(line) : line[i] # REST /\ line[i] < bound

\* C2 (as the specification states it): for a start pitch that is not a rest, a
\* starting degree in 1..7, either direction, either fill policy and any
\* num_notes >= 1, create_line returns a line of exactly num_notes notes.
C2_LineLengthIsNumNotes ==
    (/\ lineCall.called
     /\ ~SilentStart(lineCall.start)
     /\ lineCall.sp \in 1..7
     /\ lineCall.num_notes >= 1)
    => (lineCall.ret.err = "" /\ Len(lineCall.ret.line) = lineCall.num_notes)

\* C2 (amended): the returned line has exactly num_notes notes when num_notes
\* is 4 or 8 (either fill policy), and under the rest-padding policy for every
\* num_notes >= 4.
C2_LineLengthForFullSlots ==
    (/\ lineCall.called
     /\ ~SilentStart(lineCall.start)
     /\ lineCall.sp \in 1..7
     /\ \/ lineCall.num_notes \in {4, 8}
        \/ lineCall.restChecked /\ lineCall.num_notes >= 4)
    => (lineCall.ret.err = "" /\ Len(lineCall.ret.line) = lineCall.num_notes)

\* a 4-note pattern repeated to fill a whole-note slot of 8 notes
C2_RepeatedLineReturned ==
    /\ LineReturned
    /\ lineCall.start > 0
    /\ lineCall.sp = 3
    /\ lineCall.num_notes = 8
    /\ ~lineCall.restChecked
    /\ Len(lineCall.ret.line) = 8
    /\ SliceFrom(lineCall.ret.line, 4) = SliceTo(lineCall.ret.line, 4)

\* C4: the rest sentinel takes no part in the arithmetic of create_line's fill
\* and clamp step: an element that is REST after the fill is REST in the
\* returned line, and the line is shifted up only when a note that is not a
\* rest is below LOWEST_NOTE.
C4_RestsTakeNoPartInClamp ==
    LineReturned =>
        /\ \A i \in 1..Len(lineCall.ret.filled) :
               lineCall.ret.filled[i] = REST => lineCall.ret.line[i] = REST
        /\ lineCall.ret.up => HasNoteBelow(lineCall.ret.filled, LOWEST_NOTE)

\* C5: when the start pitch is REST or negative, create_line returns num_notes
\* rests and leaves the chord as it was, whatever the starting degree and the
\* direction are (a degree outside 1..7 included).
C5_SilentStartYieldsRests ==
    (lineCall.called /\ (lineCall.start = REST \/ lineCall.start < 0))
    => /\ lineCall.ret.err = ""
       /\ lineCall.ret.line = Rests(lineCall.num_notes)
       /\ lineCall.ret.chord = lineCall.chord

\* a negative start pitch that is not REST, with a degree no branch handles
C5_SilentStartOutsideDegrees ==
    /\ lineCall.called
    /\ lineCall.start = -1
    /\ lineCall.sp = 8
    /\ lineCall.num_notes = 4
    /\ lineCall.ret.line = <<REST, REST, REST, REST>>

\* C10 (as the specification states it): the clamp applies at most one octave
\* shift to a line, never both the shift up and the shift down.
C10_AtMostOneShift ==
    lineCall.called => ~(lineCall.ret.up /\ lineCall.ret.down)

\* C10 (amended): the clamp, which a line built from a start pitch that is not
\* a rest goes through, is one pass of two tests.  A line with an element
\* below LOWEST_NOTE is shifted up 12, and is shifted back down 12 when the
\* raised line has an element above HIGHEST_NOTE, so that it is returned where
\* it was; a line with no element below LOWEST_NOTE is shifted down 12 when it
\* has an element above HIGHEST_NOTE and is returned as it is otherwise.
C10_SinglePassNetShift ==
    (LineReturned /\ ~SilentStart(lineCall.start)) =>
        LET f == lineCall.ret.filled
            l == lineCall.ret.line
        IN  /\ l \in {f, MapAdd(f, 12), MapAdd(f, -12)}
            /\ (AnyBelow(f, LOWEST_NOTE) /\ AnyAbove(MapAdd(f, 12), HIGHEST_NOTE))
                   => l = f
            /\ (AnyBelow(f, LOWEST_NOTE) /\ ~AnyAbove(MapAdd(f, 12), HIGHEST_NOTE))
                   => l = MapAdd(f, 12)
            /\ (~AnyBelow(f, LOWEST_NOTE) /\ AnyAbove(f, HIGHEST_NOTE))
                   => l = MapAdd(f, -12)
            /\ (~AnyBelow(f, LOWEST_NOTE) /\ ~AnyAbove(f, HIGHEST_NOTE))
                   => l = f

\* a line of four notes, none a rest, on which both shifts ran
C10_BothShiftsRan ==
    /\ LineReturned
    /\ lineCall.ret.up
    /\ lineCall.ret.down
    /\ Len(lineCall.ret.filled) = 4
    /\ ~Contains(lineCall.ret.filled, REST)
    /\ lineCall.ret.line = lineCall.ret.filled

(***************************************************************************)
(* Properties of the Chord class (checked under SpecChord).                *)
(***************************************************************************)
\* the chord was inverted by k and then by (n - k) mod n, n its number of pitches
InvertedThereAndBack ==
    /\ Len(ops) = 2
    /\ ops[1].op = "invert"
    /\ ops[2].op = "invert"
    /\ ops[1].k \in 0..Len(built)
    /\ ops[2].k = (Len(built) - ops[1].k) % Len(built)

\* C8 (as the specification states it): invert(k) followed by invert((n - k)
\* mod n) returns the chord to the pitches it had, for every k in 0..n.
C8_InvertRoundTrip ==
    InvertedThereAndBack => chord.pitches = built

\* C8 (amended): invert(k) followed by invert((n - k) mod n) returns the chord
\* to its pitches in their order one octave higher for 1 <= k <= n, and to the
\* pitches themselves for k = 0.
C8_InvertRoundTripOctaveUp ==
    InvertedThereAndBack =>
        chord.pitches = IF ops[1].k = 0 THEN built ELSE MapAdd(built, 12)

\* a chord of four pitches inverted by 1 and then by 3
C8_InvertedByOneAndBack ==
    /\ InvertedThereAndBack
    /\ Len(built) = 4
    /\ ops[1].k = 1
    /\ ops[2].k = 3
    /\ chord.pitches = MapAdd(built, 12)

\* C9: chord - L  returns a new chord whose pitches are the pitches the chord
\* has now with every occurrence of each pitch of L removed, in ascending order.
C9_SubtractsFromCurrentPitches ==
    (/\ ops # <<>>
     /\ ops[Len(ops)].op = "sub"
     /\ chord.pitches # <<>>)
    => /\ result.err = ""
       /\ result.new.pitches = Sorted(RemoveEach(chord.pitches, ops[Len(ops)].L))

(***************************************************************************)
(* Properties of a generation run (checked under Spec).                    *)
(***************************************************************************)
RECURSIVE SumSeq(_)
SumSeq(s) == IF s = <<>> THEN 0 ELSE s[1] + SumSeq(Tail(s))

\* the notes of n choruses: one note per eighth of every chord's duration
SlotNotes(n) == n * (SumSeq(generate_chorus_chord_rhythms) \div EN)

LastCall == calls[Len(calls)]

\* C1: after generate_solo has run all its passes on the default progression,
\* every pitch of the returned solo that is not REST lies between LOWEST_NOTE
\* and HIGHEST_NOTE.
C1_SoloWithinRange ==
    (Len(calls) = 1 /\ calls[1].err \in {"", "ValueError"})
    => \A i \in 1..Len(soloLinePitches) :
           soloLinePitches[i] # REST
           => (LOWEST_NOTE <= soloLinePitches[i] /\ soloLinePitches[i] <= HIGHEST_NOTE)

\* C3: after every completed call of onGenerate the solo's pitch list and rhythm
\* list hold the notes of that call only: as many as the slots of the call have
\* notes.
C3_BuffersHoldOneCall ==
    (calls # <<>> /\ \A c \in 1..Len(calls) : calls[c].err = "")
    => /\ Len(soloLinePitches) = SlotNotes(LastCall.numChoruses)
       /\ Len(soloLineRhythms) = SlotNotes(LastCall.numChoruses)

\* C6: a call of onGenerate that aborts while the solo is generated leaves the
\* solo's pitch and rhythm lists and the chord and rhythm lists as they were
\* before the call.
C6_AbortLeavesNoOutput ==
    [][(/\ Len(calls') = Len(calls) + 1
        /\ calls'[Len(calls')].err \notin {"", "ValueError"})
       => /\ soloLinePitches' = soloLinePitches
          /\ soloLineRhythms' = soloLineRhythms
          /\ chordList' = chordList
          /\ rhythmList' = rhythmList]_vars

\* C7: every chord played as accompaniment has its pitches in ascending order,
\* as many as its quality has intervals, none of them REST, each the root plus
\* an interval of the quality up to whole octaves.
C7_CompingChordsWellFormed ==
    \A i \in 1..Len(pianoNotes) :
        LET p == pianoNotes[i]
            c0 == generate_chorus_changes[((i - 1) % Len(generate_chorus_changes)) + 1]
        IN  /\ Len(p) = Len(c0.pitches)
            /\ \A k \in 1..Len(p) :
                   /\ p[k] # REST
                   /\ k > 1 => p[k - 1] <= p[k]
                   /\ \E m \in 1..Len(c0.pitches) : (p[k] - c0.pitches[m]) % 12 = 0

\* C12: after every completed call of onGenerate chordList and rhythmList are
\* empty and downBeatScaleDegrees, lineDirections and the two DEFAULT lists are
\* the 26-entry sequences the module was loaded with.
C12_ResetRestoresDefaults ==
    (calls # <<>> /\ LastCall.err = "")
    => /\ chordList = <<>>
       /\ rhythmList = <<>>
       /\ downBeatScaleDegrees = InitialDownBeatScaleDegrees
       /\ lineDirections = InitialLineDirections
       /\ DEFAULT_DOWN_BEAT_SCALE_DEGREES = InitialDownBeatScaleDegrees
       /\ DEFAULT_LINE_DIRECTIONS = InitialLineDirections

\* C13: for a seventh chord of the progression, a starting degree in 1..7,
\* either direction and 4 or 8 notes, the first note of the line create_line
\* returns has the pitch class of the start pitch generate_solo passes,
\* chord.pitches[0] + chord.scale[degree - 1].
C13_LineStartsOnDownBeat ==
    (/\ lineCall.called
     /\ lineCall.sp \in 1..7
     /\ lineCall.num_notes \in {4, 8}
     /\ lineCall.start = DownBeat(lineCall.chord, lineCall.sp))
    => /\ lineCall.ret.err = ""
       /\ lineCall.ret.line # <<>>
       /\ (lineCall.ret.line[1] - lineCall.start) % 12 = 0

(***************************************************************************)
(* Properties of the octave smoothing (checked under SpecSmooth).          *)
(***************************************************************************)
\* C11: when the second loop of generate_solo visits an index that holds a
\* pitch (not a rest) and the next note is more than 12 semitones higher, the
\* next note is lowered an octave; when the next note is more than 12 semitones
\* lower, the next note is raised an octave.
C11_SmoothsLeapsBothWays ==
    LET j == smoothing.i
        b == smoothing.before
        s == smoothing.solo
    IN  (j >= 1 /\ b[j] >= 0 /\ b[j + 1] >= 0)
        => /\ b[j + 1] - b[j] > 12 => s[j + 1] = b[j + 1] - 12
           /\ b[j] - b[j + 1] > 12 => s[j + 1] = b[j + 1] + 12

====
